---- MODULE Spec2Model ----
(***************************************************************************)
(* A model of create_offline_installer.py: the build() pipeline of         *)
(* MinicondaOfflineInstaller, the Windows PATH registry clean-up, the       *)
(* package-name extraction, and the install scripts the pipeline emits.    *)
(*                                                                         *)
(* Text is modelled as a sequence of tokens (one-character strings, or a   *)
(* longer token where no operation of the program looks inside it).        *)
(***************************************************************************)
EXTENDS Integers, Sequences, FiniteSets, TLC

\* ------------------------------------------------------------------ bounds
\* How many times build() may be started on the same machine.
MaxRuns == 2
\* How many entries a PATH value under study may hold.
MaxEntries == 2
\* How many arguments may follow target_dir when the install script is run.
MaxExtraArgs == 4

\* ------------------------------------------------------------ text helpers
Max(S) == CHOOSE x \in S : \A y \in S : y <= x

RECURSIVE Flatten(_)
Flatten(ss) == IF ss = <<>> THEN <<>> ELSE Head(ss) \o Flatten(Tail(ss))

\* str.join: the parts with sep between each two neighbours.
RECURSIVE Join(_, _)
Join(parts, sep) ==
    IF parts = <<>> THEN <<>>
    ELSE IF Len(parts) = 1 THEN parts[1]
    ELSE parts[1] \o sep \o Join(Tail(parts), sep)

\* str.split(sep) for a one-token separator: always at least one part.
RECURSIVE Split(_, _)
Split(s, sep) ==
    LET cut == {i \in 1..Len(s) : s[i] = sep}
    IN  IF cut = {} THEN <<s>>
        ELSE LET i == CHOOSE j \in cut : \A k \in cut : j <= k
             IN  <<SubSeq(s, 1, i - 1)>> \o Split(SubSeq(s, i + 1, Len(s)), sep)

\* str.replace(old, new) where old is one token and new a token sequence.
RECURSIVE Replace(_, _, _)
Replace(s, old, new) ==
    IF s = <<>> THEN <<>>
    ELSE (IF Head(s) = old THEN new ELSE <<Head(s)>>) \o Replace(Tail(s), old, new)

Range(s) == {s[i] : i \in 1..Len(s)}

\* ------------------------------------------------------------ package_name
Digits == {"0", "1", "2", "3", "4", "5", "6", "7", "8", "9"}

\* The places where the regular expression's "-\d" can match.
DashDigit(f) == {i \in 1..(Len(f) - 1) : f[i] = "-" /\ f[i + 1] \in Digits}

\* re.match(r"(.*)-\d.*", f) is None
NoMatch(f) == DashDigit(f) = {}

\* group(1) of the greedy match: everything before the LAST "-<digit>".
package_name(f) == SubSeq(f, 1, Max(DashDigit(f)) - 1)

\* ------------------------------------------------- Windows PATH registry
HKCU == "HKEY_CURRENT_USER"
HKLM == "HKEY_LOCAL_MACHINE"

REG_SZ == "REG_SZ"
REG_EXPAND_SZ == "REG_EXPAND_SZ"
REG_DWORD == "REG_DWORD"
NoValue == "no value"

pathsep == ";"

\* What %BT% stands for in the environment of the process.
EnvBT == <<"C:", "\\", "build_temp">>

\* reg.ExpandEnvironmentStrings
ExpandEnvironmentStrings(v) == Replace(v, "%BT%", EnvBT)

sz_expand(value, value_type) ==
    IF value_type = REG_EXPAND_SZ THEN ExpandEnvironmentStrings(value) ELSE value

\* os.path.normcase on Windows: lower case, and "/" becomes "\".
LowerToken(t) ==
    CASE t = "/" -> "\\"
      [] t = "C:" -> "c:"
      [] t = "BUILD_TEMP" -> "build_temp"
      [] t = "Scripts" -> "scripts"
      [] t = "Windows" -> "windows"
      [] t = "%BT%" -> "%bt%"
      [] OTHER -> t

normcase(p) == [i \in 1..Len(p) |-> LowerToken(p[i])]

IsDrive(t) == t \in {"C:", "c:"}

\* os.path.normpath on Windows over the tokens of the model: "/" becomes "\",
\* repeated and trailing separators and "." components go, the drive and the
\* root stay, and the empty path is ".".
normpath(p) ==
    LET q     == [i \in 1..Len(p) |-> IF p[i] = "/" THEN "\\" ELSE p[i]]
        drive == IF q # <<>> /\ IsDrive(q[1]) THEN <<q[1]>> ELSE <<>>
        r1    == SubSeq(q, Len(drive) + 1, Len(q))
        root  == IF r1 # <<>> /\ r1[1] = "\\" THEN <<"\\">> ELSE <<>>
        comps == SelectSeq(Split(r1, "\\"), LAMBDA c : c # <<>> /\ c # <<".">>)
        out   == drive \o root \o Join(comps, <<"\\">>)
    IN  IF out = <<>> THEN <<".">> ELSE out

\* A slip: the expanded text of the entries that stay is written back.
RECURSIVE FilterEntriesExpanded(_, _, _)
FilterEntriesExpanded(entries, value_type, pathname) ==
    IF entries = <<>> THEN <<>>
    ELSE LET vexp == sz_expand(Head(entries), value_type)
             rest == FilterEntriesExpanded(Tail(entries), value_type, pathname)
         IN  IF normcase(normpath(vexp)) = pathname THEN rest ELSE <<vexp>> \o rest

\* Lines 69-79: the entries that stay, in their unexpanded text.
RECURSIVE FilterEntries(_, _, _)
FilterEntries(entries, value_type, pathname) ==
    IF entries = <<>> THEN <<>>
    ELSE LET v    == Head(entries)
             vexp == sz_expand(v, value_type)
             rest == FilterEntries(Tail(entries), value_type, pathname)
         IN  IF normcase(normpath(vexp)) = pathname THEN rest ELSE <<v>> \o rest

\* Lines 57-87 for one key: the key after it, whether OpenKey raised,
\* whether an error was caught and the key skipped, and whether SetValueEx
\* stored a value.
key_result(k, failed, caught, stored) ==
    [key |-> k, raised |-> failed, skipped |-> caught, wrote |-> stored]

remove_from_key(k, pathname) ==
    IF ~k.openable THEN key_result(k, TRUE, FALSE, FALSE)
    ELSE IF k.type = NoValue THEN key_result(k, FALSE, TRUE, FALSE)
    ELSE IF k.type = REG_DWORD THEN key_result(k, FALSE, TRUE, FALSE)
    ELSE LET entries    == Split(k.value, pathsep)
             results    == FilterEntries(entries, k.type, pathname)
             any_change == \E i \in 1..Len(entries) :
                               normcase(normpath(sz_expand(entries[i], k.type))) = pathname
             modified   == Join(results, <<pathsep>>)
         IN  IF ~any_change THEN key_result(k, FALSE, FALSE, FALSE)
             ELSE IF ~k.writable THEN key_result(k, FALSE, TRUE, FALSE)
             ELSE key_result([k EXCEPT !.value = modified], FALSE, FALSE, TRUE)

envkeys(allusers) == IF allusers THEN <<HKCU, HKLM>> ELSE <<HKCU>>

\* The loop of lines 56-87 over the keys: acc is [reg, raised, wrote, skipped]
\* so far, r what the loop body did with the first of keys.
RECURSIVE remove_keys(_, _, _)
key_done(keys, pathname, acc, r) ==
    IF r.raised
    THEN [acc EXCEPT !.raised = TRUE]
    ELSE remove_keys(Tail(keys), pathname,
                     [reg     |-> [acc.reg EXCEPT ![Head(keys)] = r.key],
                      raised  |-> FALSE,
                      wrote   |-> IF r.wrote THEN acc.wrote \cup {Head(keys)} ELSE acc.wrote,
                      skipped |-> IF r.skipped THEN acc.skipped \cup {Head(keys)}
                                  ELSE acc.skipped])

remove_keys(keys, pathname, acc) ==
    IF keys = <<>> THEN acc
    ELSE key_done(keys, pathname, acc, remove_from_key(acc.reg[Head(keys)], pathname))

remove_from_system_path(pathname, allusers, reg) ==
    remove_keys(envkeys(allusers), normcase(normpath(pathname)),
                [reg |-> reg, raised |-> FALSE, wrote |-> {}, skipped |-> {}])

\* Line 259 after the second removal r2: the change is broadcast.
send_environment_changed(skipped1, r2) ==
    [reg |-> r2.reg, raised |-> r2.raised, broadcast |-> ~r2.raised,
     skipped |-> skipped1 \cup r2.skipped]

\* Lines 256-258 after the first removal r1: the Scripts directory is removed too.
remove_scripts_dir(build_install_dir, for_all_users, r1) ==
    IF r1.raised
    THEN [reg |-> r1.reg, raised |-> TRUE, broadcast |-> FALSE, skipped |-> r1.skipped]
    ELSE send_environment_changed(
             r1.skipped,
             remove_from_system_path(build_install_dir \o <<"\\", "Scripts">>,
                                     for_all_users, r1.reg))

\* _clean_up_system_path: two removals, then the broadcast.
clean_up_system_path(build_install_dir, nonadmin, reg) ==
    remove_scripts_dir(build_install_dir, ~nonadmin,
                       remove_from_system_path(build_install_dir, ~nonadmin, reg))

\* ------------------------------------------------------- names and paths
Systems == {"Windows", "Linux", "Darwin"}

\* sys.platform of a host whose platform.system() is system.
sys_platform(system) ==
    CASE system = "Windows" -> "win32"
      [] system = "Darwin" -> "darwin"
      [] OTHER -> "linux"

IS_WINDOWS(system) == sys_platform(system) = "win32"

extensions == [s \in Systems |->
    CASE s = "Windows" -> "exe" [] s = "Linux" -> "sh" [] OTHER -> "sh"]

platforms == [s \in Systems |->
    CASE s = "Windows" -> "Windows" [] s = "Linux" -> "Linux" [] OTHER -> "MacOSX"]

architectures == [b \in {"64bit"} |-> "x86_64"]

conda_python_version == "3"
bitness == "64bit"
version == "4.7.12.1"
ccdc_version == "-2"

\* '{0}{1}-{2}-{3}-{4}.{5}'.format(...)
installer_name(distribution, ver, system) ==
    <<distribution, conda_python_version, "-", ver, "-", platforms[system], "-",
      architectures[bitness], ".", extensions[system]>>

build_install_dir == <<"build_temp">>

os_sep(system) == IF system = "Windows" THEN "\\" ELSE "/"

\* os.path.join('output', name + '-' + version + ccdc_version)
output_dir_path(ver, system) ==
    <<"output", os_sep(system), "miniconda3", "-", ver, ccdc_version>>

\* os.path.join(self.output_dir, self.installer_name)
output_installer(distribution, ver, system) ==
    output_dir_path(ver, system) \o <<os_sep(system)>>
        \o installer_name(distribution, ver, system)

channel_arch(system) ==
    IF sys_platform(system) = "win32"
    THEN (IF bitness = "64bit" THEN "win-64" ELSE "win-32")
    ELSE IF sys_platform(system) = "darwin" THEN "osx-64"
    ELSE "linux-64"

\* MinicondaOfflineInstaller.base_conda_packages
base_conda_packages ==
    LET api_pkgs    == <<"Pillow", "six", "lxml", "numpy", "matplotlib", "pytest">>
        script_pkgs == <<"docxtpl", "pockets", "docutils", "pygments", "sphinx",
                         "pandas", "py-xgboost">>
    IN  api_pkgs \o script_pkgs

\* ------------------------------------------------------- install scripts
PH_installer_exe == "{{ installer_exe }}"
PH_conda_packages == "{{ conda_packages }}"
NL == "\n"

BaseInstallUnix ==
    "conda install -y --channel \"$INSTALLER_DIR/conda_offline_channel\" --offline --override-channels"

BaseInstallWindows ==
    "call conda install -y --channel \"%installer_dir%conda_offline_channel\" --offline --override-channels"

windows_install_script ==
    << "@echo off", NL,
       "if x%~s1==x (", NL,
       "  echo \"install target_dir [ccdc_packages_and_package_name_pairs...]\"", NL,
       "  goto end", NL,
       ")", NL,
       "setlocal", NL,
       "set installer_dir=%~dps0", NL,
       "start /wait \"\" \"%installer_dir%", PH_installer_exe, "\" /AddToPath=0 /S /D=%~s1", NL,
       "call %~s1\\Scripts\\activate", NL,
       BaseInstallWindows, " ", PH_conda_packages, NL,
       "shift", NL,
       ":next_package", NL,
       "if not \"%1\" == \"\" (", NL,
       "    call conda install -y --channel \"%installer_dir%%1_conda_channel\" --offline --override-channels %2", NL,
       "    shift", NL,
       "    shift", NL,
       "    goto next_package", NL,
       ")", NL,
       "endlocal", NL,
       ":end", NL >>

unix_install_script ==
    << "#!/bin/sh", NL,
       "if test $# -eq 0 ; then", NL,
       "    echo 'install target_dir [ccdc_packages_and_package_name_pairs...]'", NL,
       "    exit 1", NL,
       "fi", NL,
       "INSTALLER_DIR=$(dirname -- \"$0\")", NL,
       "chmod +x $INSTALLER_DIR/", PH_installer_exe, NL,
       "$INSTALLER_DIR/", PH_installer_exe, " -b -p $1", NL,
       "unset PYTHONPATH", NL,
       "unset PYTHONHOME", NL,
       ". $1/bin/activate \"\"", NL,
       BaseInstallUnix, " ", PH_conda_packages, NL,
       "shift", NL,
       "while test $# -gt 1", NL,
       "do", NL,
       "    conda install -y --channel \"$INSTALLER_DIR/$1_conda_channel\" --offline --override-channels $2", NL,
       "    shift", NL,
       "    shift", NL,
       "done", NL >>

\* os.path.split: the directory and the last component of a path.
path_split(system, path) ==
    LET seps == {i \in 1..Len(path) :
                    path[i] = "/" \/ (system = "Windows" /\ path[i] = "\\")}
    IN  IF seps = {} THEN <<(<<>>), path>>
        ELSE <<SubSeq(path, 1, Max(seps) - 1), SubSeq(path, Max(seps) + 1, Len(path))>>

\* ' '.join(pkgs)
join_packages(pkgs) == Join([i \in 1..Len(pkgs) |-> <<pkgs[i]>>], <<" ">>)

\* A slip: str.replace(old, new, 1), which replaces the first occurrence only.
RECURSIVE ReplaceFirst(_, _, _)
ReplaceFirst(s, old, new) ==
    IF s = <<>> THEN <<>>
    ELSE IF Head(s) = old THEN new \o Tail(s)
    ELSE <<Head(s)>> \o ReplaceFirst(Tail(s), old, new)

render_first_only(system, installer_path, pkgs) ==
    LET template == IF sys_platform(system) = "win32" THEN windows_install_script
                    ELSE unix_install_script
        s1 == ReplaceFirst(template, PH_installer_exe, path_split(system, installer_path)[2])
    IN  ReplaceFirst(s1, PH_conda_packages, join_packages(pkgs))

\* write_install_script, lines 465-472: the file's name and its text.
render_install_script(system, installer_path, pkgs) ==
    LET script == IF sys_platform(system) = "win32" THEN windows_install_script
                  ELSE unix_install_script
        s1 == Replace(script, PH_installer_exe, path_split(system, installer_path)[2])
    IN  Replace(s1, PH_conda_packages, join_packages(pkgs))

install_name(system, installer_path) ==
    path_split(system, installer_path)[1]
        \o <<os_sep(system), "install.", IF sys_platform(system) = "win32" THEN "bat" ELSE "sh">>

\* ------------------------------------------------------------ file system
\* A directory tree: whether it exists, and the files in it.  A file is
\* [at, name, run, ok]: the subdirectory, the name, the run of build() that
\* wrote it, and whether its content is what its name promises.
Absent == [exists |-> FALSE, files |-> {}]
Empty == [exists |-> TRUE, files |-> {}]

File(at, name, r) == [at |-> at, name |-> name, run |-> r, ok |-> TRUE]

\* What a failed shutil.rmtree can leave: everything, one entry it could not
\* remove, or the emptied directory itself.
RmtreeLeft(files) == {files} \cup {{f} : f \in files} \cup {{}}

\* shutil.rmtree(d): the directory afterwards, and whether it raised.
rmtree(d) ==
    IF ~d.exists THEN {[dir |-> d, raised |-> TRUE]}
    ELSE {[dir |-> Absent, raised |-> FALSE]}
         \cup {[dir |-> [exists |-> TRUE, files |-> left], raised |-> TRUE] :
                  left \in RmtreeLeft(d.files)}

\* A slip: os.makedirs(d, exist_ok=True).
makedirs_exist_ok(d) == [dir |-> [d EXCEPT !.exists = TRUE], raised |-> FALSE]

\* os.makedirs(d): FileExistsError when d is there already.
makedirs(d) ==
    IF d.exists THEN [dir |-> d, raised |-> TRUE]
    ELSE [dir |-> Empty, raised |-> FALSE]

\* ---------------------------------------------------------- package files
Mk(name, ver, build, ext) == name \o <<"-">> \o ver \o <<"-">> \o build \o <<ext>>

A_conda4 == Mk(<<"conda">>, <<"4">>, <<"py_0">>, ".tar.bz2")
A_conda5 == Mk(<<"conda">>, <<"5">>, <<"py_0">>, ".conda")
A_six    == Mk(<<"six">>, <<"1">>, <<"py_0">>, ".tar.bz2")
A_six_b  == Mk(<<"six">>, <<"1">>, <<"py_1">>, ".conda")
A_ca     == Mk(<<"ca", "-", "certificates">>, <<"2", "0", "1", "9">>, <<"0">>, ".conda")
A_tk     == Mk(<<"tk">>, <<"v", "8">>, <<"h_0">>, ".tar.bz2")
A_cb     == Mk(<<"conda", "-", "build">>, <<"3">>, <<"py_0">>, ".tar.bz2")
UrlsTxt  == <<"urls", ".txt">>

\* What the installer brings, and what the mirror may hand out.
Bundled == {A_conda4}
UpdateSets == {{}, {A_conda5}}
DepSets == {{A_six, A_six_b, A_ca}, {A_six, A_tk}}

\* glob.glob(os.path.join(build_install_dir, 'pkgs', '*.bz2')) and '*.conda'
IsBz2(f) == f # <<>> /\ f[Len(f)] = ".tar.bz2"
IsConda(f) == f # <<>> /\ f[Len(f)] = ".conda"
Pkgs(d) == {f.name : f \in {g \in d.files : g.at = "pkgs"}}
glob_bz2(d) == {f \in Pkgs(d) : IsBz2(f)}
glob_conda(d) == {f \in Pkgs(d) : IsConda(f)}

\* The packages linked into the scratch runtime.
Installed(d) == {f.name : f \in {g \in d.files : g.at = "env"}}

\* -------------------------------------------------------- package manager
\* _args_for('conda')
conda_exe(system) ==
    IF IS_WINDOWS(system) THEN "build_temp\\Scripts\\conda.exe" ELSE "build_temp/bin/conda"

\* args of _run_pkg_manager, line 274
pkg_manager_args(system, extra_args, package_specs) ==
    <<conda_exe(system)>> \o extra_args \o package_specs

conda_cleanup_args == <<"clean", "-y", "--all">>
conda_update_args == <<"update", "-y", "--all">>
\* A slip: the fetch run like the mixin's conda_install, without --download-only.
conda_install_args_installing == <<"install", "-y">>

conda_install_args == <<"install", "-y", "--download-only">>
mixin_conda_install_args == <<"install", "-y">>
conda_index_args(channel) == <<"index", "-p", "repodata-hotfixes/main.py", channel>>

\* What conda does to the scratch runtime: clean empties the package cache;
\* update and install fetch archives into it and, unless --download-only is
\* given, link them into the runtime.
conda(args, d, fetched, r) ==
    LET sub == args[2]
        flags == Range(args)
    IN  CASE sub = "clean" ->
               [d EXCEPT !.files = {f \in d.files :
                                       ~(f.at = "pkgs" /\ (IsBz2(f.name) \/ IsConda(f.name)))}]
          [] sub \in {"update", "install"} ->
               [d EXCEPT !.files =
                   d.files \cup {File("pkgs", a, r) : a \in fetched}
                           \cup (IF "--download-only" \in flags THEN {}
                                 ELSE {File("env", a, r) : a \in fetched})]
          [] OTHER -> d

\* A slip: the exit status of the package manager is not looked at.
pkg_manager_ignored(outcome) == FALSE

\* Lines 276-280: a nonzero exit raises RuntimeError.
pkg_manager_raises(outcome) == outcome # 0

\* ------------------------------------------------------------------ state
VARIABLES
    system,         \* platform.system() of the host
    pc,             \* where build() stands: "idle", a step of it, "done", "failed"
    run,            \* how many times build() was started
    calls,          \* the steps of build() executed in this run, in order
    raised,         \* the error build() raised to its caller, or "none"
    failures,       \* the failures that happened in this run: [step, kind]
    build_dir,      \* the scratch directory, build_temp
    output_dir,     \* output/miniconda3-<version>-2
    invocations,    \* the argument lists handed to the package manager
    registry,       \* the two Environment keys of the Windows registry
    broadcast,      \* whether WM_SETTINGCHANGE was broadcast in this run
    install_script, \* the install script written: [name, text, mode], or NoScript
    path_call,      \* the PATH clean-up call under study: its arguments and the registry before
    path_result,    \* what that call did: [raised, wrote, skipped, broadcast]
    name_in,        \* the archive filename package_name is applied to, in its parts
    name_out,       \* what package_name returned for it
    inst_in,        \* what installer_name is read on: [distribution, version, system, bitness]
    inst_out,       \* what installer_name returned for it
    script_in,      \* what write_install_script renders from: [system, version, packages]
    sc_pc,          \* where a run of the emitted install script stands
    sc_args,        \* the positional parameters of that run ($1.. or %1..)
    sc_log          \* the installer and conda commands that run has executed

pipeVars == <<system, pc, run, calls, raised, failures, build_dir, output_dir,
              invocations, registry, broadcast, install_script>>

pathVars == <<path_call, path_result>>
nameVars == <<name_in, name_out, inst_in, inst_out>>
scriptVars == <<script_in, sc_pc, sc_args, sc_log>>
vars == <<pipeVars, pathVars, nameVars, scriptVars>>

NoScript == [name |-> <<>>, text |-> <<>>, mode |-> "none"]

Keys == {HKCU, HKLM}

RegKey(openable, type, value, writable) ==
    [openable |-> openable, type |-> type, value |-> value, writable |-> writable]

WinDir == <<"C:", "\\", "Windows">>

\* A registry no step reads (the host is not Windows).
NoRegistry == [k \in Keys |-> RegKey(FALSE, NoValue, <<>>, FALSE)]

\* The registries build() may meet on a Windows host.
BuildRegistries ==
    {[k \in Keys |-> IF k = HKCU THEN u ELSE m] :
        u \in {RegKey(TRUE, NoValue, <<>>, TRUE),
               RegKey(TRUE, REG_EXPAND_SZ, WinDir \o <<pathsep, "BUILD_TEMP", "/">>, TRUE)},
        m \in {RegKey(TRUE, REG_EXPAND_SZ, WinDir, TRUE),
               RegKey(TRUE, REG_SZ, <<"build_temp", "\\", "Scripts", pathsep>> \o WinDir, FALSE),
               RegKey(FALSE, REG_EXPAND_SZ, WinDir, FALSE)}}

\* What an earlier, unrecorded run may have left behind.
Residue(dirname) == [exists |-> TRUE, files |-> {File("root", <<dirname, ".old">>, 0)}]

\* A slip: the baseline cleanup left out of build().
BuildSequenceNoCleanup ==
    << "clean_build_and_output", "get_source_packages_from_mirror",
       "check_condarc_presence", "install_anaconda", "pin_python_version",
       "conda_update", "conda_install", "copy_packages",
       "index_offline_channel", "write_install_script" >>

\* The steps of build(), lines 478-512, in the order it calls them.
BuildSequence ==
    << "clean_build_and_output", "get_source_packages_from_mirror",
       "check_condarc_presence", "install_anaconda", "pin_python_version",
       "conda_cleanup", "conda_update", "conda_install", "copy_packages",
       "index_offline_channel", "write_install_script" >>

StepIndex(step) == CHOOSE i \in 1..Len(BuildSequence) : BuildSequence[i] = step

NextStep(step) ==
    IF StepIndex(step) = Len(BuildSequence) THEN "done"
    ELSE BuildSequence[StepIndex(step) + 1]

Failure(step, kind) == [step |-> step, kind |-> kind]

\* The step ran: it either hands over to the next one or raises err.
Finish(step, err, happened) ==
    /\ calls' = Append(calls, step)
    /\ failures' = failures \cup happened
    /\ raised' = err
    /\ pc' = IF err = "none" THEN NextStep(step) ELSE "failed"

\* ------------------------------------------------------- build(), by step
\* build() is called: lines 478-479.
Start ==
    /\ pc \in {"idle", "done", "failed"}
    /\ run < MaxRuns
    /\ run' = run + 1
    /\ pc' = BuildSequence[1]
    /\ calls' = <<>>
    /\ raised' = "none"
    /\ failures' = {}
    /\ invocations' = <<>>
    /\ broadcast' = FALSE
    /\ install_script' = NoScript
    /\ UNCHANGED <<pathVars, nameVars, scriptVars, system, build_dir, output_dir, registry>>

\* Lines 480-482: both trees removed, errors swallowed, then recreated.
CleanBuildAndOutput ==
    /\ pc = "clean_build_and_output"
    /\ \E ro \in rmtree(output_dir), rb \in rmtree(build_dir), denied \in BOOLEAN :
          LET mb  == makedirs(rb.dir)
              mo  == makedirs(ro.dir)
              err == IF mb.raised THEN "FileExistsError"
                     ELSE IF denied THEN "PermissionError"
                     ELSE IF mo.raised THEN "FileExistsError"
                     ELSE "none"
              swallowed ==
                  (IF ro.raised THEN {Failure("clean_build_and_output", "rmtree output_dir")}
                   ELSE {})
                  \cup (IF rb.raised
                        THEN {Failure("clean_build_and_output", "rmtree build_install_dir")}
                        ELSE {})
          IN  /\ build_dir' = IF mb.raised \/ denied THEN rb.dir ELSE mb.dir
              /\ output_dir' = IF err = "none" THEN mo.dir ELSE ro.dir
              /\ Finish("clean_build_and_output", err,
                        swallowed \cup (IF err = "none" THEN {}
                                        ELSE {Failure("clean_build_and_output", "makedirs")}))
    /\ UNCHANGED <<pathVars, nameVars, scriptVars, system, run, invocations, registry, broadcast, install_script>>

\* Lines 329-335.  requests.get raises on a connection error only: an HTTP
\* error status is a response like any other, and its body is written out.
GetSourcePackagesFromMirror ==
    /\ pc = "get_source_packages_from_mirror"
    /\ \E response \in {"200", "404", "ConnectionError", "IOError"} :
          LET inst == [File("root", installer_name("Miniconda", version, system), run)
                         EXCEPT !.ok = (response = "200")]
          IN  /\ output_dir' = IF response \in {"200", "404"}
                               THEN [output_dir EXCEPT !.files = @ \cup {inst}]
                               ELSE output_dir
              /\ Finish("get_source_packages_from_mirror",
                        IF response \in {"200", "404"} THEN "none" ELSE response,
                        IF response = "200" THEN {}
                        ELSE {Failure("get_source_packages_from_mirror", response)})
    /\ UNCHANGED <<pathVars, nameVars, scriptVars, system, run, build_dir, invocations, registry, broadcast, install_script>>

\* Lines 287-301: only reports what it finds.
CheckCondarcPresence ==
    /\ pc = "check_condarc_presence"
    /\ Finish("check_condarc_presence", "none", {})
    /\ UNCHANGED <<pathVars, nameVars, scriptVars, system, run, build_dir, output_dir, invocations, registry, broadcast,
                   install_script>>

\* What the unattended installer does when it succeeds: the runtime, its
\* bundled archives, and (on Windows) two entries added to PATH.
installed_runtime(d, nonadmin, r) ==
    [d EXCEPT !.files = @ \cup {File("env", a, r) : a \in Bundled}
                          \cup {File("pkgs", a, r) : a \in Bundled}
                          \cup {File("pkgs", UrlsTxt, r), File("conda-meta", <<"history">>, r)}
                          \cup (IF nonadmin THEN {File("root", <<".nonadmin">>, r)} ELSE {})]

installer_adds_to_path(reg, nonadmin) ==
    LET k == IF nonadmin THEN HKCU ELSE HKLM
        added == EnvBT \o <<pathsep>> \o EnvBT \o <<"\\", "Scripts">>
    IN  IF reg[k].openable /\ reg[k].writable /\ reg[k].type \in {REG_SZ, REG_EXPAND_SZ}
        THEN [reg EXCEPT ![k].value = @ \o <<pathsep>> \o added]
        ELSE reg

\* Lines 226-230 once the installer has run: cl is what the PATH clean-up
\* did (nothing off Windows), then the exit status is looked at.
InstallerRan(outcome, nonadmin, cl) ==
    /\ build_dir' = IF outcome = 0
                    THEN installed_runtime(build_dir, nonadmin, run)
                    ELSE build_dir
    /\ registry' = cl.reg
    /\ broadcast' = cl.broadcast
    /\ Finish("install_anaconda",
              IF cl.raised THEN "WindowsError"
              ELSE IF outcome # 0 THEN "RuntimeError"
              ELSE "none",
              (IF outcome # 0
               THEN {Failure("install_anaconda", "installer exit status")}
               ELSE {})
              \cup (IF cl.raised
                    THEN {Failure("install_anaconda", "OpenKey")}
                    ELSE {})
              \cup (IF cl.skipped # {}
                    THEN {Failure("install_anaconda", "registry key skipped")}
                    ELSE {}))

\* Lines 222-230: run the installer, clean PATH on Windows, then look at the
\* installer's exit status.
InstallAnaconda ==
    /\ pc = "install_anaconda"
    /\ \E inst \in {f \in output_dir.files :
                       f.name = installer_name("Miniconda", version, system)},
          started \in BOOLEAN, outcome \in {0, 1}, nonadmin \in BOOLEAN :
          /\ outcome = 0 => (inst.ok /\ started)
          /\ outcome # 0 => ~nonadmin
          /\ IF ~started
             THEN /\ UNCHANGED <<build_dir, registry, broadcast>>
                  /\ Finish("install_anaconda", "OSError",
                            {Failure("install_anaconda", "installer did not start")})
             ELSE InstallerRan(
                      outcome, nonadmin,
                      IF IS_WINDOWS(system)
                      THEN clean_up_system_path(
                               build_install_dir, nonadmin,
                               IF outcome = 0
                               THEN installer_adds_to_path(registry, nonadmin)
                               ELSE registry)
                      ELSE [reg |-> registry, raised |-> FALSE,
                            broadcast |-> broadcast, skipped |-> {}])
    /\ UNCHANGED <<pathVars, nameVars, scriptVars, system, run, output_dir, invocations, install_script>>

\* Lines 210-214: conda-meta/pinned is written.
PinPythonVersion ==
    /\ pc = "pin_python_version"
    /\ \E ioerror \in BOOLEAN :
          /\ build_dir' = IF ioerror THEN build_dir
                          ELSE [build_dir EXCEPT
                                   !.files = @ \cup {File("conda-meta", <<"pinned">>, run)}]
          /\ Finish("pin_python_version", IF ioerror THEN "IOError" ELSE "none",
                    IF ioerror THEN {Failure("pin_python_version", "open")} ELSE {})
    /\ UNCHANGED <<pathVars, nameVars, scriptVars, system, run, output_dir, invocations, registry, broadcast, install_script>>

\* _run_pkg_manager for a step that is one call of the package manager.
\* A failed call may still have done its work.
RunPkgManager(step, extra_args, package_specs, fetchable) ==
    /\ \E outcome \in {0, 1}, applied \in BOOLEAN, fetched \in fetchable :
          LET args == pkg_manager_args(system, extra_args, package_specs)
          IN  /\ outcome = 0 => applied
              /\ invocations' = Append(invocations, args)
              /\ build_dir' = IF applied THEN conda(args, build_dir, fetched, run)
                              ELSE build_dir
              /\ Finish(step,
                        IF pkg_manager_raises(outcome) THEN "RuntimeError" ELSE "none",
                        IF outcome # 0 THEN {Failure(step, "conda exit status")} ELSE {})
    /\ UNCHANGED <<pathVars, nameVars, scriptVars, system, run, output_dir, registry, broadcast, install_script>>

\* Lines 354-357
CondaCleanup ==
    /\ pc = "conda_cleanup"
    /\ RunPkgManager("conda_cleanup", conda_cleanup_args, <<>>, {{}})

\* Lines 359-362
CondaUpdate ==
    /\ pc = "conda_update"
    /\ RunPkgManager("conda_update", conda_update_args, <<>>, UpdateSets)

\* Lines 364-368, called with base_conda_packages() at line 503
CondaInstall ==
    /\ pc = "conda_install"
    /\ RunPkgManager("conda_install", conda_install_args, base_conda_packages, DepSets)

\* What copy_packages can have copied when it stops at a file: the *.bz2 loop
\* runs before the *.conda loop, each in the order glob returns.
CopiedBefore(bz2, cnd, stop) ==
    IF stop \in bz2 THEN SUBSET (bz2 \ {stop})
    ELSE {bz2 \cup c : c \in SUBSET (cnd \ {stop})}

\* A slip: known_packages used as a filter, one archive per package name.
copied_once_per_name(bz2, cnd) ==
    {CHOOSE f \in bz2 \cup cnd : package_name(f) = n :
        n \in {package_name(g) : g \in bz2 \cup cnd}}

\* Lines 405-412 when nothing raises: every globbed file is copied.
copied_files(bz2, cnd) == bz2 \cup cnd

\* Lines 395-412
CopyPackages ==
    /\ pc = "copy_packages"
    /\ LET bz2 == glob_bz2(build_dir)
           cnd == glob_conda(build_dir)
           bad == {f \in bz2 \cup cnd : NoMatch(f)}
           arch == channel_arch(system)
           put(S) == [output_dir EXCEPT !.files = @ \cup {File(arch, f, run) : f \in S}]
       IN  \E denied \in BOOLEAN, stop \in bz2 \cup cnd \cup {<<>>} :
              IF denied
              THEN /\ stop = <<>>
                   /\ output_dir' = output_dir
                   /\ Finish("copy_packages", "PermissionError",
                             {Failure("copy_packages", "makedirs")})
              ELSE IF stop = <<>>
              THEN /\ bad = {}
                   /\ output_dir' = put(copied_files(bz2, cnd))
                   /\ Finish("copy_packages", "none", {})
              ELSE /\ \E S \in CopiedBefore(bz2, cnd, stop) :
                         /\ bad \cap S = {}
                         /\ output_dir' = put(S)
                   /\ Finish("copy_packages",
                             IF stop \in bad THEN "AttributeError" ELSE "IOError",
                             {Failure("copy_packages",
                                      IF stop \in bad THEN "package_name" ELSE "copyfile")})
    /\ UNCHANGED <<pathVars, nameVars, scriptVars, system, run, build_dir, invocations, registry, broadcast, install_script>>

output_conda_offline_channel(host) ==
    IF host = "Windows" THEN "output\\miniconda3-4.7.12.1-2\\conda_offline_channel"
    ELSE "output/miniconda3-4.7.12.1-2/conda_offline_channel"

\* What `conda index` writes into the channel.
indexed(d, arch, r) ==
    [d EXCEPT !.files = @ \cup {File(arch, <<"repodata", ".json">>, r),
                                File("channel", <<"channeldata", ".json">>, r)}]

\* Lines 415-418: whatever the conda-build install raises is dropped.
conda_build_failure_propagates(outcome) == FALSE

\* Lines 414-419 (and 388-393): conda-build is installed into the scratch
\* runtime with the mixin's conda_install, then the channel is indexed.
IndexOfflineChannel ==
    /\ pc = "index_offline_channel"
    /\ \E o1 \in {0, 1}, applied \in BOOLEAN, o2 \in {0, 1} :
          LET args1 == pkg_manager_args(system, mixin_conda_install_args, <<"conda-build">>)
              args2 == pkg_manager_args(system,
                           conda_index_args(output_conda_offline_channel(system)), <<>>)
              f1 == IF o1 # 0
                    THEN {Failure("index_offline_channel", "conda-build install")} ELSE {}
              f2 == IF o2 # 0
                    THEN {Failure("index_offline_channel", "conda index")} ELSE {}
          IN  /\ o1 = 0 => applied
              /\ build_dir' = IF applied THEN conda(args1, build_dir, {A_cb}, run)
                              ELSE build_dir
              /\ IF conda_build_failure_propagates(o1)
                 THEN /\ invocations' = Append(invocations, args1)
                      /\ output_dir' = output_dir
                      /\ Finish("index_offline_channel", "RuntimeError", f1)
                 ELSE /\ invocations' = invocations \o <<args1, args2>>
                      /\ output_dir' = IF o2 = 0
                                       THEN indexed(output_dir, channel_arch(system), run)
                                       ELSE output_dir
                      /\ Finish("index_offline_channel",
                                IF pkg_manager_raises(o2) THEN "RuntimeError" ELSE "none",
                                f1 \cup f2)
    /\ UNCHANGED <<pathVars, nameVars, scriptVars, system, run, registry, broadcast, install_script>>

\* Lines 464-476
WriteInstallScript ==
    /\ pc = "write_install_script"
    /\ \E ioerror \in BOOLEAN :
          LET installer == output_installer("Miniconda", version, system)
              name == install_name(system, installer)
              text == render_install_script(system, installer, base_conda_packages)
          IN  /\ install_script' =
                    IF ioerror THEN install_script
                    ELSE [name |-> name, text |-> text,
                          mode |-> IF sys_platform(system) # "win32" THEN "0o755"
                                   ELSE "default"]
              /\ output_dir' =
                    IF ioerror THEN output_dir
                    ELSE [output_dir EXCEPT
                             !.files = @ \cup {File("root", path_split(system, name)[2], run)}]
              /\ Finish("write_install_script", IF ioerror THEN "IOError" ELSE "none",
                        IF ioerror THEN {Failure("write_install_script", "open")} ELSE {})
    /\ UNCHANGED <<pathVars, nameVars, scriptVars, system, run, build_dir, invocations, registry, broadcast>>

Next ==
    \/ Start
    \/ CleanBuildAndOutput
    \/ GetSourcePackagesFromMirror
    \/ CheckCondarcPresence
    \/ InstallAnaconda
    \/ PinPythonVersion
    \/ CondaCleanup
    \/ CondaUpdate
    \/ CondaInstall
    \/ CopyPackages
    \/ IndexOfflineChannel
    \/ WriteInstallScript

\* The variables of the studies below, at rest.
NoCall == [pathname |-> <<>>, allusers |-> FALSE, before |-> NoRegistry, op |-> "none"]
NoResult == [raised |-> FALSE, wrote |-> {}, skipped |-> {}, broadcast |-> FALSE]
NoName == [name |-> <<>>, ver |-> <<>>, build |-> <<>>, ext |-> ""]
Unset == [state |-> "unset", name |-> <<>>]
NoRender == [system |-> "Linux", version |-> "", packages |-> <<>>]

PathIdle == path_call = NoCall /\ path_result = NoResult
NoInstaller == [distribution |-> "", version |-> "", system |-> "Linux", bitness |-> ""]
InstallerIdle == inst_in = NoInstaller /\ inst_out = Unset
NameIdle == name_in = NoName /\ name_out = Unset /\ InstallerIdle
ScriptIdle ==
    /\ script_in = NoRender
    /\ sc_pc = "idle"
    /\ sc_args = [argv |-> <<>>, left |-> <<>>]
    /\ sc_log = <<>>

Init ==
    /\ system \in Systems
    /\ pc = "idle"
    /\ run = 0
    /\ calls = <<>>
    /\ raised = "none"
    /\ failures = {}
    /\ build_dir \in {Absent, Residue("build_temp")}
    /\ output_dir \in {Absent, Residue("output")}
    /\ invocations = <<>>
    /\ registry \in (IF system = "Windows" THEN BuildRegistries ELSE {NoRegistry})
    /\ broadcast = FALSE
    /\ install_script = NoScript
    /\ PathIdle /\ NameIdle /\ ScriptIdle

Spec == Init /\ [][Next]_vars

\* =================================================== claims about build()
Last(q) == q[Len(q)]

\* The removals of the reset step, whose errors clean_build_and_output drops:
\* the step itself fails when a directory cannot be recreated.
IsRemoval(f) == f.kind \in {"rmtree output_dir", "rmtree build_install_dir"}

\* Failures that build() does not turn into an error of its own.
Tolerated(f) ==
    \/ IsRemoval(f)
    \/ f = Failure("get_source_packages_from_mirror", "404")
    \/ f = Failure("install_anaconda", "registry key skipped")
    \/ f = Failure("index_offline_channel", "conda-build install")

\* C1 as stated: whenever a step of build() has failed, the run has ended
\* with an error raised to the caller, and the failed step is the last one
\* that ran.
C1_AnyFailureTerminates ==
    \A f \in failures :
        ~IsRemoval(f) => (pc = "failed" /\ raised # "none" /\ Last(calls) = f.step)

\* C1 amended: every failure of a step ends the run with an error raised to
\* the caller and no later step runs -- except an HTTP error status of the
\* installer download (not looked at: the body is written and the run goes
\* on to run it), a failure of the conda-build install inside the indexing
\* step (dropped: indexing and script writing still run), and the errors
\* the code catches on purpose inside a step (rmtree in the reset, a
\* registry key's PATH value in the PATH clean-up).
C1_FatalFailureTerminates ==
    \A f \in failures :
        ~Tolerated(f) => (pc = "failed" /\ raised # "none" /\ Last(calls) = f.step)

\* C1 witness: the update fetch failed and the run stopped there.
C1_Witness ==
    /\ Failure("conda_update", "conda exit status") \in failures
    /\ pc = "failed"
    /\ raised = "RuntimeError"
    /\ Last(calls) = "conda_update"

\* The ten steps the pipeline is described by (check_condarc_presence only
\* reports, and is not one of them).
PipelineSteps ==
    << "clean_build_and_output", "get_source_packages_from_mirror", "install_anaconda",
       "pin_python_version", "conda_cleanup", "conda_update", "conda_install",
       "copy_packages", "index_offline_channel", "write_install_script" >>

\* C2: a run of build() that completes without error has executed each of
\* the ten pipeline steps exactly once, in the documented order.
C2_CompletedRunOrder ==
    pc = "done" =>
        /\ raised = "none"
        /\ SelectSeq(calls, LAMBDA c : c \in Range(PipelineSteps)) = PipelineSteps

\* C2 witness: a second run has completed.
C2_Witness == pc = "done" /\ run = 2 /\ Len(calls) = Len(BuildSequence)

\* The reset of this run is over and did not raise.
ResetDone == Len(calls) >= 2 \/ (Len(calls) = 1 /\ pc # "failed")

\* C5: once the reset of a run is over, nothing an earlier run wrote is left
\* in the scratch directory or in the versioned output directory.
C5_NoResidue ==
    ResetDone => \A f \in build_dir.files \cup output_dir.files : f.run = run

\* C5 witness: a second run is past its reset and has written files again.
C5_Witness ==
    /\ run = 2
    /\ pc = "copy_packages"
    /\ build_dir.files # {}
    /\ output_dir.files # {}

Channel(d, arch) == {f.name : f \in {g \in d.files : g.at = arch}}

\* C6: when copy_packages() has returned, the platform subdirectory of the
\* channel holds exactly the .bz2 and .conda archives of the package cache,
\* under their names, whatever their package names are.
C6_CopiesEveryArchive ==
    pc = "index_offline_channel" =>
        Channel(output_dir, channel_arch(system))
            = {n \in Pkgs(build_dir) : IsBz2(n) \/ IsConda(n)}

\* C6 witness: two archives of one package name were both copied, and the
\* cache's urls.txt was not.
C6_Witness ==
    /\ pc = "index_offline_channel"
    /\ package_name(A_six) = package_name(A_six_b)
    /\ {A_six, A_six_b} \subseteq Channel(output_dir, channel_arch(system))
    /\ UrlsTxt \in Pkgs(build_dir)
    /\ UrlsTxt \notin Channel(output_dir, channel_arch(system))

\* C7 as stated: from the installed runtime to the package copy, no step
\* changes what is installed in the scratch runtime.
C7_NeverInstalls ==
    [][(pc \in {"pin_python_version", "conda_cleanup", "conda_update", "conda_install"})
           => (Installed(build_dir') = Installed(build_dir))]_vars

\* C7 amended: the dependency fetch (and pinning and cleanup) never changes
\* what is installed in the scratch runtime, its call carrying
\* --download-only; the update fetch runs `conda update -y --all` without
\* it, so it is the one step there that also installs what it downloads.
C7_DependencyFetchDownloadOnly ==
    [][(pc \in {"pin_python_version", "conda_cleanup", "conda_install"})
           => (/\ Installed(build_dir') = Installed(build_dir)
               /\ (pc = "conda_install"
                      => "--download-only" \in Range(Last(invocations'))))]_vars

\* C7 witness: the dependency fetch put an archive in the cache without
\* installing it, after the update fetch had installed its download.
C7_Witness ==
    /\ pc = "copy_packages"
    /\ A_six \in Pkgs(build_dir)
    /\ A_six \notin Installed(build_dir)
    /\ A_conda5 \in Installed(build_dir)

\* The variables of build(), at rest in the studies below.
PipeIdle ==
    /\ system = "Linux"
    /\ pc = "idle"
    /\ run = 0
    /\ calls = <<>>
    /\ raised = "none"
    /\ failures = {}
    /\ build_dir = Absent
    /\ output_dir = Absent
    /\ invocations = <<>>
    /\ registry = NoRegistry
    /\ broadcast = FALSE
    /\ install_script = NoScript

\* ======================================================= package_name
NameParts ==
    [name  : {<<"six">>, <<"ca", "-", "certificates">>, <<"py", "-", "xgboost">>},
     ver   : {<<"1">>, <<"1", ".", "1", "2">>, <<"2", "0", "1", "9">>},
     build : {<<"py_0">>, <<"h", "5", "2", "_", "0">>, <<"py", "3", "7", "_", "1">>,
              <<"0">>, <<"1">>},
     ext   : {".tar.bz2", ".conda"}]

Filename(n) == Mk(n.name, n.ver, n.build, n.ext)

InitName ==
    /\ PipeIdle /\ PathIdle /\ ScriptIdle
    /\ name_in \in NameParts
    /\ name_out = Unset
    /\ InstallerIdle

\* Lines 370-373
PackageName ==
    /\ name_out.state = "unset"
    /\ name_out' = IF NoMatch(Filename(name_in))
                   THEN [state |-> "AttributeError", name |-> <<>>]
                   ELSE [state |-> "returned", name |-> package_name(Filename(name_in))]
    /\ UNCHANGED <<pipeVars, pathVars, scriptVars, name_in, inst_in, inst_out>>

NextName == PackageName

SpecName == InitName /\ [][NextName]_vars

\* C3: package_name, given name-<version>-<build>.<ext> with a version that
\* starts with a digit, returns name, whatever the build string is.
C3_ReturnsName ==
    name_out.state # "unset" =>
        (name_out.state = "returned" /\ name_out.name = name_in.name)

\* C3, where it does hold: package_name returns name when the build string
\* does not start with a digit either.
C3_Witness ==
    /\ name_out.state = "returned"
    /\ name_in.build[1] \notin Digits
    /\ "-" \in Range(name_in.name)
    /\ name_out.name = name_in.name

\* ============================================== remove_from_system_path
\* The entries a PATH value under study is made of.
PathEntries ==
    { EnvBT,
      <<"c:", "/", "BUILD_TEMP", "/">>,
      <<"%BT%">>,
      EnvBT \o <<"\\", "Scripts">>,
      WinDir,
      <<>> }

RECURSIVE EntryLists(_)
EntryLists(n) ==
    IF n = 0 THEN {<<>>}
    ELSE LET shorter == EntryLists(n - 1)
         IN  shorter \cup {Append(l, e) : l \in {x \in shorter : Len(x) = n - 1},
                                         e \in PathEntries}

PathValues == {Join(l, <<pathsep>>) : l \in EntryLists(MaxEntries) \ {<<>>}}

UserKeys ==
    {RegKey(TRUE, t, v, TRUE) : t \in {REG_SZ, REG_EXPAND_SZ}, v \in PathValues}
    \cup {RegKey(TRUE, NoValue, <<>>, TRUE),
          RegKey(TRUE, REG_DWORD, <<>>, TRUE),
          RegKey(TRUE, REG_EXPAND_SZ, EnvBT \o <<pathsep>> \o WinDir, FALSE),
          RegKey(FALSE, REG_EXPAND_SZ, EnvBT \o <<pathsep>> \o WinDir, TRUE)}

MachineKeys ==
    {RegKey(TRUE, REG_EXPAND_SZ, WinDir \o <<pathsep>> \o EnvBT \o <<pathsep, "%BT%", "\\", "Scripts">>, TRUE),
     RegKey(TRUE, REG_SZ, <<"%BT%", pathsep>> \o WinDir, TRUE),
     RegKey(TRUE, NoValue, <<>>, TRUE),
     RegKey(FALSE, REG_EXPAND_SZ, EnvBT, TRUE)}

Pathnames == {EnvBT, <<"C:", "/", "build_temp", "/", "Scripts", "/">>, build_install_dir}

InitPath ==
    /\ system = "Windows"
    /\ pc = "idle"
    /\ run = 0
    /\ calls = <<>>
    /\ raised = "none"
    /\ failures = {}
    /\ build_dir = Absent
    /\ output_dir = Absent
    /\ invocations = <<>>
    /\ registry \in {[k \in Keys |-> IF k = HKCU THEN u ELSE m] :
                        u \in UserKeys, m \in MachineKeys}
    /\ broadcast = FALSE
    /\ install_script = NoScript
    /\ PathIdle /\ NameIdle /\ ScriptIdle

\* What a call leaves behind: the registry, the broadcast and its record.
PathCalled(op, pathname, allusers, r) ==
    /\ path_call' = [pathname |-> pathname, allusers |-> allusers,
                     before |-> registry, op |-> op]
    /\ registry' = r.reg
    /\ broadcast' = r.broadcast
    /\ path_result' = [raised |-> r.raised, wrote |-> r.wrote,
                       skipped |-> r.skipped, broadcast |-> r.broadcast]

\* remove_from_system_path(pathname, allusers), lines 39-87
RemoveFromSystemPath ==
    /\ path_call.op = "none"
    /\ \E pathname \in Pathnames, allusers \in BOOLEAN :
          PathCalled("remove_from_system_path", pathname, allusers,
                     [broadcast |-> broadcast] @@
                     remove_from_system_path(pathname, allusers, registry))
    /\ UNCHANGED <<nameVars, scriptVars, system, pc, run, calls, raised, failures,
                   build_dir, output_dir, invocations, install_script>>

\* _clean_up_system_path(), lines 246-259, for an install directory and the
\* presence of its .nonadmin marker
CleanUpSystemPath ==
    /\ path_call.op = "none"
    /\ \E dir \in {EnvBT, build_install_dir}, nonadmin \in BOOLEAN :
          PathCalled("_clean_up_system_path", dir, ~nonadmin,
                     [wrote |-> {}] @@ clean_up_system_path(dir, nonadmin, registry))
    /\ UNCHANGED <<nameVars, scriptVars, system, pc, run, calls, raised, failures,
                   build_dir, output_dir, invocations, install_script>>

\* The call is over; the registry stays as it left it.
PathReturn ==
    /\ path_call.op # "none"
    /\ path_call' = NoCall
    /\ path_result' = NoResult
    /\ broadcast' = FALSE
    /\ UNCHANGED <<nameVars, scriptVars, system, pc, run, calls, raised, failures,
                   build_dir, output_dir, invocations, registry, install_script>>

NextPath ==
    \/ RemoveFromSystemPath
    \/ CleanUpSystemPath
    \/ PathReturn

SpecPath == InitPath /\ [][NextPath]_vars

\* Whether entry e of a value of type t names the directory pathname.
EntryMatches(e, t, pathname) ==
    LET expanded == IF t = REG_EXPAND_SZ THEN ExpandEnvironmentStrings(e) ELSE e
    IN  normcase(normpath(expanded)) = normcase(normpath(pathname))

HasMatch(k, pathname) ==
    /\ k.type \in {REG_SZ, REG_EXPAND_SZ}
    /\ \E e \in Range(Split(k.value, pathsep)) : EntryMatches(e, k.type, pathname)

\* The keys the call got to: HKCU, and HKLM for all users once HKCU opened.
Reached(call) ==
    {HKCU} \cup (IF call.allusers /\ call.before[HKCU].openable THEN {HKLM} ELSE {})

\* C4: remove_from_system_path writes a key's PATH value only when an entry
\* matched, and then writes the entries that do not match, unexpanded and in
\* their order; every other key keeps its value, and a key it reached (and
\* may write) with a matching entry is written.
C4_RemovesExactlyMatches ==
    path_call.op = "remove_from_system_path" =>
        \A k \in Keys :
            LET old  == path_call.before[k]
                keep == SelectSeq(Split(old.value, pathsep),
                                  LAMBDA e : ~EntryMatches(e, old.type, path_call.pathname))
            IN  /\ k \in path_result.wrote =>
                      /\ HasMatch(old, path_call.pathname)
                      /\ registry[k] = [old EXCEPT !.value = Join(keep, <<pathsep>>)]
                /\ k \notin path_result.wrote => registry[k] = old
                /\ (k \in Reached(path_call) /\ old.openable /\ old.writable
                        /\ HasMatch(old, path_call.pathname))
                      => k \in path_result.wrote

\* C4 witness: a value [match, other, match-by-expansion] of HKCU was
\* rewritten to the one entry that does not match.
C4_Witness ==
    /\ path_call.op = "remove_from_system_path"
    /\ path_call.pathname = EnvBT
    /\ path_call.before[HKCU].value = <<"%BT%", pathsep>> \o WinDir
    /\ path_call.before[HKCU].type = REG_EXPAND_SZ
    /\ HKCU \in path_result.wrote
    /\ registry[HKCU].value = WinDir

\* C10: whatever fails for a key (opening it, reading PATH, rewriting it),
\* the PATH clean-up raises nothing, goes on to the remaining keys, and the
\* environment change is broadcast.
C10_KeyErrorsSkipped ==
    /\ path_call.op # "none" => ~path_result.raised
    /\ path_call.op = "_clean_up_system_path" => broadcast
    /\ path_call.op = "remove_from_system_path" =>
          \A k \in Range(envkeys(path_call.allusers)) :
              (path_call.before[k].openable /\ path_call.before[k].writable
                  /\ HasMatch(path_call.before[k], path_call.pathname))
              => k \in path_result.wrote

\* C10, where it does hold: HKCU has no PATH value, and HKLM is still
\* cleaned and the change broadcast.
C10_Witness ==
    /\ path_call.op = "_clean_up_system_path"
    /\ path_call.before[HKCU].type = NoValue
    /\ path_call.allusers
    /\ HKCU \in path_result.skipped
    /\ registry[HKLM] # path_call.before[HKLM]
    /\ ~path_result.raised
    /\ broadcast

\* ================================================== the installer's name
\* The attributes installer_name reads: the distribution and version of the
\* instance, the host system, and the bitness looked up in architectures.
InstallerInputs ==
    [distribution : {"Anaconda", "Miniconda"},
     version      : {version, "4.8.3", "4.5.12", "2019.10", "2020.02"},
     system       : Systems,
     bitness      : {bitness, "32bit"}]

\* The comment of line 195:
\* (Ana|Mini)conda-<VERSION>-<PLATFORM>-<ARCHITECTURE>.<EXTENSION>
documented_installer_name(distribution, ver, host, bits) ==
    <<distribution, "-", ver, "-", platforms[host], "-",
      architectures[bits], ".", extensions[host]>>

InitInstaller ==
    /\ PipeIdle /\ PathIdle /\ ScriptIdle
    /\ name_in = NoName
    /\ name_out = Unset
    /\ inst_in \in InstallerInputs
    /\ inst_out = Unset

\* Lines 193-202, read on an instance whose bitness is inst_in.bitness: a
\* bitness the architectures table lacks is a KeyError.
InstallerName ==
    /\ inst_out.state = "unset"
    /\ inst_out' = IF inst_in.bitness \notin DOMAIN architectures
                   THEN [state |-> "KeyError", name |-> <<>>]
                   ELSE [state |-> "returned",
                         name  |-> installer_name(inst_in.distribution,
                                                  inst_in.version, inst_in.system)]
    /\ UNCHANGED <<pipeVars, pathVars, scriptVars, name_in, name_out, inst_in>>

NextInstaller == InstallerName

SpecInstaller == InitInstaller /\ [][NextInstaller]_vars

\* C11: for every distribution, version, host system and bitness of the
\* tables, installer_name returns exactly the documented
\* (Ana|Mini)conda-<VERSION>-<PLATFORM>-<ARCHITECTURE>.<EXTENSION>, with the
\* platform, architecture and extension of the tables.
C11_MatchesDocumentedPattern ==
    (inst_out.state # "unset" /\ inst_in.bitness \in DOMAIN architectures) =>
        /\ inst_out.state = "returned"
        /\ inst_out.name =
               documented_installer_name(inst_in.distribution, inst_in.version,
                                         inst_in.system, inst_in.bitness)

\* C11, what is returned instead: the name of the Windows Miniconda installer
\* carries conda_python_version between the distribution and the first dash;
\* the rest is the documented pattern.
C11_Witness ==
    /\ inst_in = [distribution |-> "Miniconda", version |-> version,
                  system |-> "Windows", bitness |-> bitness]
    /\ inst_out.state = "returned"
    /\ inst_out.name = <<"Miniconda", "3", "-", "4.7.12.1", "-", "Windows", "-",
                         "x86_64", ".", "exe">>
    /\ Tail(Tail(inst_out.name)) =
           Tail(documented_installer_name("Miniconda", version, "Windows", bitness))

\* ==================================================== the install script
RenderInputs ==
    [system   : Systems,
     version  : {version, "4.8.3"},
     packages : {base_conda_packages, <<"Pillow", "six">>, <<"six">>,
                 <<"conda-build", "conda-verify", "jinja2">>}]

RECURSIVE SeqsUpTo(_, _)
SeqsUpTo(S, n) ==
    IF n = 0 THEN {<<>>}
    ELSE LET shorter == SeqsUpTo(S, n - 1)
         IN  shorter \cup {Append(q, x) : q \in {y \in shorter : Len(y) = n - 1}, x \in S}

\* The command lines the script may be started with: nothing, or target_dir
\* and up to MaxExtraArgs further arguments.
CommandLines ==
    {<<>>} \cup {<<"target_dir">> \o extra : extra \in SeqsUpTo({"ccdc", "pkg"}, MaxExtraArgs)}

NoArgs == [argv |-> <<>>, left |-> <<>>]

InitScript ==
    /\ PipeIdle /\ PathIdle /\ NameIdle
    /\ script_in \in RenderInputs
    /\ sc_pc = "idle"
    /\ sc_args = NoArgs
    /\ sc_log = <<>>

scriptRest == <<pathVars, nameVars, system, pc, run, calls, raised, failures, build_dir,
                output_dir, invocations, registry, broadcast>>

IsBat == script_in.system = "Windows"

\* write_install_script, lines 464-476, for the installer and the package
\* list of script_in
Render ==
    /\ sc_pc = "idle"
    /\ LET installer == output_installer("Miniconda", script_in.version, script_in.system)
       IN  install_script' =
              [name |-> install_name(script_in.system, installer),
               text |-> render_install_script(script_in.system, installer,
                                              script_in.packages),
               mode |-> IF sys_platform(script_in.system) # "win32" THEN "0o755"
                        ELSE "default"]
    /\ sc_pc' = "written"
    /\ UNCHANGED <<scriptRest, script_in, sc_args, sc_log>>

\* The user starts install.sh / install.bat.
Invoke ==
    /\ sc_pc = "written"
    /\ \E argv \in CommandLines : sc_args' = [argv |-> argv, left |-> argv]
    /\ sc_pc' = "usage"
    /\ sc_log' = <<>>
    /\ UNCHANGED <<scriptRest, script_in, install_script>>

\* `if test $# -eq 0` (line 444) and `if x%~s1==x` (line 422)
Usage ==
    /\ sc_pc = "usage"
    /\ sc_pc' = IF sc_args.left = <<>> THEN "exit" ELSE "installer"
    /\ UNCHANGED <<scriptRest, script_in, install_script, sc_args, sc_log>>

\* Lines 449-450 and 428: the bundled installer, into $1
RunInstaller ==
    /\ sc_pc = "installer"
    /\ sc_log' = Append(sc_log, [cmd |-> "installer", channel |-> <<>>, arg |-> sc_args.left[1]])
    /\ sc_pc' = "base"
    /\ UNCHANGED <<scriptRest, script_in, install_script, sc_args>>

\* Lines 454-455 and 430-431: the base offline install, then shift
BaseInstall ==
    /\ sc_pc = "base"
    /\ sc_log' = Append(sc_log, [cmd |-> "conda install",
                                 channel |-> <<"conda_offline_channel">>,
                                 arg |-> "{{ conda_packages }}"])
    /\ sc_args' = [sc_args EXCEPT !.left = Tail(@)]
    /\ sc_pc' = "loop"
    /\ UNCHANGED <<scriptRest, script_in, install_script>>

\* `while test $# -gt 1`, line 456
unix_loop_test(left) == Len(left) > 1

\* `if not "%1" == ""`, line 433
windows_loop_test(left) == Len(left) > 0

\* $2 / %2: empty when there is no second parameter.
Param2(left) == IF Len(left) > 1 THEN left[2] ELSE ""

\* `shift` twice: a shift with nothing left does nothing in cmd.
Shift2(left) == IF Len(left) > 1 THEN Tail(Tail(left)) ELSE <<>>

\* Lines 456-461 and 432-438: one turn of the loop, or its end
Loop ==
    /\ sc_pc = "loop"
    /\ IF (IF IsBat THEN windows_loop_test(sc_args.left) ELSE unix_loop_test(sc_args.left))
       THEN /\ sc_log' = Append(sc_log, [cmd |-> "conda install",
                                         channel |-> <<sc_args.left[1], "_conda_channel">>,
                                         arg |-> Param2(sc_args.left)])
            /\ sc_args' = [sc_args EXCEPT !.left = Shift2(@)]
            /\ sc_pc' = "loop"
       ELSE /\ sc_pc' = "end"
            /\ UNCHANGED <<sc_args, sc_log>>
    /\ UNCHANGED <<scriptRest, script_in, install_script>>

NextScript ==
    \/ Render
    \/ Invoke
    \/ Usage
    \/ RunInstaller
    \/ BaseInstall
    \/ Loop

SpecScript == InitScript /\ [][NextScript]_vars

\* The names of pkgs with one space between each two.
SpaceSeparated(pkgs) ==
    [i \in 1..(2 * Len(pkgs) - 1) |-> IF i % 2 = 1 THEN pkgs[(i + 1) \div 2] ELSE " "]

\* The template with each placeholder token replaced where it stands.
Substituted(template, exe, pkgs) ==
    Flatten([i \in 1..Len(template) |->
                IF template[i] = PH_installer_exe THEN exe
                ELSE IF template[i] = PH_conda_packages THEN SpaceSeparated(pkgs)
                ELSE <<template[i]>>])

\* C8: the script written is the platform's template with every
\* '{{ installer_exe }}' replaced by the installer's filename and
\* '{{ conda_packages }}' by the package names, space-separated in declared
\* order; no placeholder is left; and for ['Pillow', 'six'] off Windows the
\* base `conda install` line ends with 'Pillow six'.
C8_ScriptRendered ==
    sc_pc # "idle" =>
        LET text == install_script.text
            exe  == installer_name("Miniconda", script_in.version, script_in.system)
        IN  /\ text = Substituted(IF IsBat THEN windows_install_script
                                  ELSE unix_install_script, exe, script_in.packages)
            /\ PH_installer_exe \notin Range(text)
            /\ PH_conda_packages \notin Range(text)
            /\ (~IsBat /\ script_in.packages = <<"Pillow", "six">>) =>
                  \E line \in Range(Split(text, NL)) :
                      line = <<BaseInstallUnix, " ", "Pillow", " ", "six">>

\* C8 witness: the unix script for ['Pillow', 'six'] has been written, with
\* the installer named on both of its lines.
C8_Witness ==
    /\ sc_pc = "written"
    /\ script_in.system = "Linux"
    /\ script_in.packages = <<"Pillow", "six">>
    /\ <<BaseInstallUnix, " ", "Pillow", " ", "six">> \in Range(Split(install_script.text, NL))
    /\ <<"chmod +x $INSTALLER_DIR/">> \o installer_name("Miniconda", script_in.version, "Linux")
          \in Range(Split(install_script.text, NL))

\* C9: started with target_dir and k (channel, package) pairs the script
\* runs the installer and the base install once, then exactly one install
\* per complete pair, in order, and nothing for what is not a complete pair;
\* started with no argument it runs nothing.
C9_OneInstallPerPair ==
    sc_pc \in {"end", "exit"} =>
        LET argv == sc_args.argv
        IN  IF argv = <<>> THEN sc_log = <<>>
            ELSE sc_log =
                   << [cmd |-> "installer", channel |-> <<>>, arg |-> argv[1]],
                      [cmd |-> "conda install", channel |-> <<"conda_offline_channel">>,
                       arg |-> "{{ conda_packages }}"] >>
                   \o [i \in 1..((Len(argv) - 1) \div 2) |->
                         [cmd |-> "conda install",
                          channel |-> <<argv[2 * i], "_conda_channel">>,
                          arg |-> argv[2 * i + 1]]]

\* C9, where it does hold: the unix script, given two pairs, has run the
\* installer, the base install and one install per pair.
C9_Witness ==
    /\ sc_pc = "end"
    /\ ~IsBat
    /\ Len(sc_args.argv) = 5
    /\ Len(sc_log) = 4
    /\ sc_log[4].channel = <<sc_args.argv[4], "_conda_channel">>
    /\ sc_log[4].arg = sc_args.argv[5]

====
